---- MODULE Spec2Model ----
(***************************************************************************)
(* A model of the DingTalk MCP server (src/src/server.py): the two token   *)
(* slots of DingdingMCPServer, the lazily created transport session, and   *)
(* call_tool with the chain of remote calls each tool makes.               *)
(*                                                                         *)
(* A step of the model is one run of the event loop between two awaits on  *)
(* the network: call_tool runs from its entry to the first request it      *)
(* sends (or to its return), and each *_response action runs from the      *)
(* arrival of a response to the next request (or to the return).  Time     *)
(* (time.time(), in seconds) advances in steps of 100 by Tick, also while  *)
(* a request is in flight.                                                 *)
(***************************************************************************)
EXTENDS Integers, Sequences, FiniteSets, TLC

VARIABLES
    access_token,       \* self.access_token      (legacy scope)
    token_expires,      \* self.token_expires
    v2_access_token,    \* self.v2_access_token   (v2 scope)
    v2_token_expires,   \* self.v2_token_expires
    session,            \* self.session: "None" or "ClientSession"
    environ,            \* os.environ: DINGTALK_APP_KEY, DINGTALK_APP_SECRET
    directory,          \* the upstream's departments and their members
    calendar,           \* the upstream's answer to a calendar-events query
    utcoffset,          \* the host's time zone: local time minus UTC, in hours
    sessions,           \* how many ClientSession objects were ever created
    now,                \* time.time()
    faults,             \* history: some invocation has ended in an error
    inv                 \* the call_tool invocations, one record per task

vars == <<access_token, token_expires, v2_access_token, v2_token_expires,
          session, sessions, environ, directory, calendar, utcoffset, now,
          faults, inv>>

----------------------------------------------------------------------------
(* Bounds of the model. *)

\* time runs over 0, 100, ..., 100 * MaxTicks
MaxTicks == 3
\* the department list holds at most MaxDepts departments
MaxDepts == 2

(* Program constants. *)

\* the safety margin subtracted from a token's lifetime
Margin == 200
\* the v2 lifetime assumed when the response carries no expireIn
DefaultExpireIn == 7200

Times == {100 * k : k \in 0..MaxTicks}

\* lifetimes (expires_in / expireIn) the upstream declares
Lifetimes == {300, DefaultExpireIn}

Procs == {1, 2}

ToolNames == {"get_access_token", "find_user_by_name", "get_department_list",
              "get_department_users", "get_user_detail", "get_calendar_list"}
\* names a client may send: the six declared tools and one that is not declared
RequestNames == ToolNames \cup {"send_message"}

DeptIds == 1..MaxDepts
UserIds == {"u1", "u2", "u3"}
\* the name the upstream stores for each user: u1 and u2 are namesakes
UserName(u) == IF u = "u3" THEN "B" ELSE "A"
\* names asked for: two that exist and one that does not
QueryNames == {"A", "B", "C"}

None == "None"
\* the empty (None) token slot; the upstream's token values are non-empty
\* strings, kept here as records naming the scope, the time the upstream
\* issued the token and the lifetime it gave it
NoToken == [scope |-> "None", at |-> 0, life |-> 0]
Token(scope, at, life) == [scope |-> scope, at |-> at, life |-> life]

\* Python truthiness of an environment value / of a token slot
TruthyStr(s) == s # None /\ s # ""
TruthyToken(t) == t # NoToken

----------------------------------------------------------------------------
(* Argument bags: functions from the keys present to their values. *)

NoArgs == [k \in {} |-> 0]
ArgBags(name) ==
    {NoArgs} \cup
    CASE name = "find_user_by_name"    -> {[name |-> n] : n \in QueryNames}
      [] name = "get_department_users" -> {[department_id |-> d] : d \in DeptIds}
      [] name = "get_user_detail"      -> {[userid |-> u] : u \in UserIds}
      [] name = "get_calendar_list"    -> {[userid |-> u] : u \in {"u1"}}
      [] OTHER                         -> {}

\* arguments[key] raises KeyError when the key is absent
HasKey(arguments, key) == key \in DOMAIN arguments

\* a dict is a function from the keys present to their values
EmptyDict == NoArgs
\* dict.get(key, default)
Get(d, key, default) == IF key \in DOMAIN d THEN d[key] ELSE default
\* the dicts that may or may not hold `key`, with one of `values`
Opt(key, values) == {EmptyDict} \cup {key :> v : v \in values}

\* the time bounds a client supplies, in epoch milliseconds
StartTimes == {0, 1500, 86400000}
EndTimes == {0, 172800999}
\* the cursors a client supplies
NextTokens == {"", "cursor2"}
\* the arguments of get_calendar_list (the schema at lines 296-322)
CalendarArgBags ==
    {[userid |-> "u1"] @@ a @@ b @@ c @@ d :
        a \in Opt("start_time", StartTimes), b \in Opt("end_time", EndTimes),
        c \in Opt("max_results", {10}), d \in Opt("next_token", NextTokens)}

----------------------------------------------------------------------------
(* Exceptions and results. *)

\* an upstream payload is kept as a record; NoData marks an exception that
\* carries no payload
NoData == [nodata |-> TRUE]
ExcDropsPayload(type, msg, data) == [type |-> type, msg |-> msg, data |-> NoData]
Exc(type, msg, data) == [type |-> type, msg |-> msg, data |-> data]
MissingCredentials ==
    Exc("ValueError", "Missing DingTalk API credentials in environment variables", NoData)
\* str(KeyError(key)) is the key, in quotes
KeyError(key) == Exc("KeyError", key, NoData)
\* a transport failure raised by the aiohttp session
ClientError == Exc("ClientError", "Cannot connect to host", NoData)

\* the classes `except Exception` catches
ExceptionClasses == {"Exception", "ValueError", "KeyError", "ClientError"}

NoResult == [prefix |-> "None"]
\* TextContent(type="text", text=f"{prefix}: {body}")
Text(prefix, body) == [prefix |-> prefix, body |-> body]
\* TextContent(text=f"Error calling tool {name}: {str(e)}")
ErrorText(name, e) ==
    [prefix |-> "Error calling tool", name |-> name, msg |-> e.msg, data |-> e.data]

----------------------------------------------------------------------------
(* The state of one invocation. *)

IdleInv ==
    [pc |-> "idle",            \* where the task is suspended
     tool |-> "None",          \* the name call_tool was called with
     name |-> "None",          \* the local variable `name`
     arguments |-> NoArgs,
     token |-> NoToken,        \* the local variable access_token
     sent |-> 0,               \* when the request in flight was sent
     departments |-> <<>>, di |-> 0,
     users |-> <<>>, ui |-> 0,
     start_time |-> 0,         \* the locals of get_calendar_list, in
     end_time |-> 0,           \* epoch milliseconds
     found_users |-> <<>>,
     calls |-> <<>>,           \* the requests sent so far, in order
     hit |-> FALSE,            \* get_token answered from the cache
     entry |-> "None",         \* history: the slot as get_token found it
     entry_token |-> NoToken,  \* history: the token of a slot found valid
     result |-> NoResult,
     raised |-> "None"]        \* the exception that left call_tool, if any

RequestWithoutToken(api, tok, dept, userid) ==
    [api |-> api, token |-> NoToken, department_id |-> dept, userid |-> userid]
Request(api, tok, dept, userid) ==
    [api |-> api, token |-> tok, department_id |-> dept, userid |-> userid]

----------------------------------------------------------------------------
(* The upstream. *)

UserOrder == <<"u1", "u2", "u3">>
InSet(S) == [u \in UserIds |-> u \in S]
\* the member lists a department may have: any set of users, in a fixed order
MemberLists == {SelectSeq(UserOrder, LAMBDA u : InSet(S)[u]) : S \in SUBSET UserIds}

\* the department lists: the departments 1..n, in ascending or descending
\* order of their ids, for every n up to MaxDepts
DeptLists ==
    UNION {{[i \in 1..n |-> i], [i \in 1..n |-> n + 1 - i]} : n \in 0..MaxDepts}

InList(s, d) == \E i \in DOMAIN s : s[i] = d

\* a directory: the department list and each listed department's members (a
\* user may be a member of several departments)
Directories ==
    {[department |-> s, userlist |-> m] :
        s \in DeptLists, m \in [DeptIds -> MemberLists]} 

WellFormed(dir) ==
    \A d \in DeptIds : InList(dir.department, d) \/ dir.userlist[d] = <<>>

\* the payloads of a rejected call (a non-zero errcode) 
Rejected == [errcode |-> 40014, errmsg |-> "invalid access_token"]
\* the v2 endpoint's rejection carries no accessToken field
RejectedV2 == [code |-> "invalidClientIdOrSecret"]

\* oapi.dingtalk.com/gettoken, asked at time `at`: the upstream issues the
\* token when the request is sent, and the response arrives then or later
GetTokenPayloads(at) ==
    {[errcode |-> 0, access_token |-> Token("legacy", at, l), expires_in |-> l] :
        l \in Lifetimes} \cup {Rejected}

\* api.dingtalk.com/v1.0/oauth2/accessToken: expireIn may be left out, and the
\* token then lives for the documented 7200 seconds
V2TokenPayloads(at) ==
    {[accessToken |-> Token("v2", at, l), expireIn |-> l] : l \in Lifetimes}
    \cup {[accessToken |-> Token("v2", at, DefaultExpireIn)]}
    \cup {RejectedV2}

Summary(u) == [userid |-> u, name |-> UserName(u)]
DepartmentListPayloads ==
    {[errcode |-> 0,
      department |-> [i \in DOMAIN directory.department |->
                         [id |-> directory.department[i]]]],
     Rejected}
DepartmentUsersPayloads(department_id) ==
    {[errcode |-> 0,
      userlist |-> [i \in DOMAIN directory.userlist[department_id] |->
                       Summary(directory.userlist[department_id][i])]],
     Rejected}
UserDetailPayloads(userid) ==
    {[errcode |-> 0, userid |-> userid, name |-> UserName(userid)], Rejected}

\* the events the calendar may hold: each of the nine fields the server reads
\* is there or not, and the nested ones are there with or without their content
Events ==
    {a @@ b @@ c @@ d @@ e @@ f @@ g @@ h @@ i :
        a \in Opt("summary", {"Standup"}),
        b \in Opt("start", {EmptyDict, [dateTime |-> "2024-01-01T09:00:00+08:00"]}),
        c \in Opt("end", {[dateTime |-> "2024-01-01T09:30:00+08:00"]}),
        d \in Opt("location", {EmptyDict, [meetingRooms |-> <<>>],
                               [meetingRooms |-> <<"Room 1">>]}),
        e \in Opt("organizer", {[displayName |-> "Ann"]}),
        f \in Opt("description", {"daily"}),
        g \in Opt("status", {"confirmed"}),
        h \in Opt("attendees", {<<EmptyDict>>,
                                <<[displayName |-> "Bob", responseStatus |-> "accepted"]>>}),
        i \in Opt("onlineMeetingInfo", {[extraInfo |-> [extraUrl |-> "https://meet"]]})}

NoEvents == [events |-> <<>>]
\* the answers to a calendar-events query: no event or one, with or without
\* the cursor of a further page
Calendars ==
    {[events |-> es] @@ n :
        es \in {<<>>} \cup {<<ev>> : ev \in Events}, n \in Opt("nextToken", {"cursor2"})}
\* api.dingtalk.com/v1.0/calendar/users/{unionid}/calendars/primary/events
CalendarPayloads == {calendar, RejectedV2}

----------------------------------------------------------------------------
(* call_tool: leaving it. *)

Finish(r, result) == [r EXCEPT !.pc = "done", !.result = result]

\* the handler of call_tool (lines 433-435): `name` is the local variable as
\* it stands when the exception arrives
ExceptEscapes(r, e) == [r EXCEPT !.pc = "done", !.raised = e.type]
ExceptBroken(r, e) ==
    IF e.type = "Exception"
    THEN Finish(r, ErrorText(r.name, e))
    ELSE [r EXCEPT !.pc = "done", !.raised = e.type]
Except(r, e) ==
    IF e.type \in ExceptionClasses
    THEN Finish(r, ErrorText(r.name, e))
    ELSE [r EXCEPT !.pc = "done", !.raised = e.type]

\* a request goes out and the task waits at `pc` for its response
SendTwice(r, pc, req) ==
    [r EXCEPT !.pc = pc, !.calls = Append(Append(@, req), req), !.sent = now]
Send(r, pc, req) ==
    [r EXCEPT !.pc = pc, !.calls = Append(@, req), !.sent = now]

----------------------------------------------------------------------------
(* The token cache. *)

\* `if self.access_token and time.time() < self.token_expires`
CachedIgnoringExpiry(tok, expires, t) == TruthyToken(tok)
Cached(tok, expires, t) == TruthyToken(tok) /\ t < expires

\* history: what get_token finds in its slot at time t
SlotState(tok, expires, t) ==
    IF tok = NoToken THEN "empty" ELSE IF t < expires THEN "valid" ELSE "expired"
Enter(r, tok, expires) ==
    [r EXCEPT !.entry = SlotState(tok, expires, now),
              !.entry_token = IF SlotState(tok, expires, now) = "valid"
                              THEN tok ELSE NoToken]

\* `time.time() + data["expires_in"] - 200`
StoredExpiryNoMargin(t, life) == t + life
StoredExpiry(t, life) == t + life - Margin

\* `if not all([app_key, app_secret])` is the negation of this
CredentialsPresentAny == TruthyStr(environ.app_key) \/ TruthyStr(environ.app_secret)
CredentialsPresent == TruthyStr(environ.app_key) /\ TruthyStr(environ.app_secret)

----------------------------------------------------------------------------
(* find_user_by_name: the two nested loops (lines 346-360). *)

Min(S) == CHOOSE x \in S : \A y \in S : x <= y

\* the end of the loops: the result of find_user_by_name
FoundResult(r) ==
    IF r.found_users # <<>>
    THEN Finish(r, Text("Found users",
                        [total |-> Len(r.found_users), users |-> r.found_users]))
    ELSE Finish(r, Text("User not found", r.name))

\* `for dept in departments`, about to take departments[di]
LoopDepartmentsSkipLast(r) ==
    IF r.di >= Len(r.departments)
    THEN FoundResult(r)
    ELSE Send(r, "department_users",
              Request("user/simplelist", r.token, r.departments[r.di].id, ""))
LoopDepartments(r) ==
    IF r.di > Len(r.departments)
    THEN FoundResult(r)
    ELSE Send(r, "department_users",
              Request("user/simplelist", r.token, r.departments[r.di].id, ""))

\* `for user in users`, about to examine users[ui]: the users up to the next
\* one named `name` are skipped, and its detail is asked for
Matches(r) == {j \in r.ui..Len(r.users) : r.users[j].name = r.name}
LoopUsersReturnFirst(r) ==
    IF r.found_users # <<>>
    THEN FoundResult(r)
    ELSE IF Matches(r) # {}
    THEN Send([r EXCEPT !.ui = Min(Matches(r))], "user_detail",
              Request("user/get", r.token, 0, r.users[Min(Matches(r))].userid))
    ELSE LoopDepartments([r EXCEPT !.di = @ + 1])
LoopUsers(r) ==
    IF Matches(r) # {}
    THEN Send([r EXCEPT !.ui = Min(Matches(r))], "user_detail",
              Request("user/get", r.token, 0, r.users[Min(Matches(r))].userid))
    ELSE LoopDepartments([r EXCEPT !.di = @ + 1])

----------------------------------------------------------------------------
(* get_calendar_list: the query (lines 176-198). *)

\* the max_results of a call that names none
DefaultMaxResults == 50

\* `if not start_time`: the argument is absent (None) or 0
FalsyInt(arguments, key) == key \notin DOMAIN arguments \/ arguments[key] = 0
\* `if next_token`: the argument is there and not the empty string
TruthyArg(arguments, key) == key \in DOMAIN arguments /\ arguments[key] # ""

\* `int((time.time() + 7 * 24 * 3600) * 1000)`
DefaultEndOneDay(t) == (t + 24 * 3600) * 1000
DefaultEnd(t) == (t + 7 * 24 * 3600) * 1000

\* the local variables start_time and end_time after lines 179-182, at time t
StartTime(arguments, t) ==
    IF FalsyInt(arguments, "start_time") THEN t * 1000 ELSE arguments.start_time
EndTime(arguments, t) ==
    IF FalsyInt(arguments, "end_time") THEN DefaultEnd(t) ELSE arguments.end_time

\* datetime.fromtimestamp(ms / 1000).strftime("%Y-%m-%dT%H:%M:%S+08:00"): the
\* date (in days since 1970-01-01) and the time of day (in seconds) that the
\* host's clock shows in its own zone, followed by the fixed suffix
Strftime(ms) ==
    LET local == (ms \div 1000) + utcoffset * 3600 IN
    [date |-> local \div 86400, time |-> local % 86400, suffix |-> "+08:00"]

\* `params`, with nextToken when a cursor was given (lines 184-192)
ParamsAlwaysCursor(arguments, t) ==
    [maxResults |-> Get(arguments, "max_results", DefaultMaxResults),
     timeMin |-> Strftime(StartTime(arguments, t)),
     timeMax |-> Strftime(EndTime(arguments, t)),
     nextToken |-> "cursor1"]
Params(arguments, t) ==
    [maxResults |-> Get(arguments, "max_results", DefaultMaxResults),
     timeMin |-> Strftime(StartTime(arguments, t)),
     timeMax |-> Strftime(EndTime(arguments, t))]
    @@ (IF TruthyArg(arguments, "next_token")
        THEN [nextToken |-> arguments.next_token] ELSE EmptyDict)

----------------------------------------------------------------------------
(* get_calendar_list: the events of the result (lines 400-425). *)

\* the placeholders of lines 403-417
NoTitle == "no-title"               \* summary
NoLocation == "no-location"         \* location
Unknown == "unknown"                \* organizer, status, attendee fields
NoDescription == "no-description"   \* description
NoMeetingLink == "no-meeting-link"  \* online_meeting

\* `d.get(key)` is truthy, for a key that holds a list
TruthyList(d, key) == key \in DOMAIN d /\ d[key] # <<>>

\* the "location" of formatted_event (line 406)
LocationOrNone(event) ==
    IF "location" \in DOMAIN event /\ "meetingRooms" \in DOMAIN event.location
    THEN IF event.location.meetingRooms # <<>>
         THEN event.location.meetingRooms[1] ELSE None
    ELSE NoLocation
Location(event) ==
    IF TruthyList(Get(event, "location", EmptyDict), "meetingRooms")
    THEN Get(Get(event, "location", EmptyDict), "meetingRooms", <<NoLocation>>)[1]
    ELSE NoLocation

\* the "attendees" of formatted_event (lines 410-416)
Attendees(event) ==
    LET attendees == Get(event, "attendees", <<>>) IN
    [j \in DOMAIN attendees |->
        [name |-> Get(attendees[j], "displayName", Unknown),
         response |-> Get(attendees[j], "responseStatus", Unknown)]]

\* formatted_event (lines 402-418)
FormattedEvent(event) ==
    [summary |-> Get(event, "summary", NoTitle),
     start_time |-> Get(Get(event, "start", EmptyDict), "dateTime", None),
     end_time |-> Get(Get(event, "end", EmptyDict), "dateTime", None),
     location |-> Location(event),
     organizer |-> Get(Get(event, "organizer", EmptyDict), "displayName", Unknown),
     description |-> Get(event, "description", NoDescription),
     status |-> Get(event, "status", Unknown),
     attendees |-> Attendees(event),
     online_meeting |->
        Get(Get(Get(event, "onlineMeetingInfo", EmptyDict), "extraInfo", EmptyDict),
            "extraUrl", NoMeetingLink)]

\* the `response` of lines 421-425
CalendarResponse(calendar_list) ==
    [events |-> [j \in DOMAIN calendar_list.events |->
                    FormattedEvent(calendar_list.events[j])],
     next_token |-> Get(calendar_list, "nextToken", None),
     total |-> Len(calendar_list.events)]

----------------------------------------------------------------------------
(* call_tool: what each branch does once get_token has returned `tok`. *)

AfterToken(r0, tok) ==
    LET r == [r0 EXCEPT !.token = tok] IN
    CASE r.tool = "get_access_token" ->
            Finish(r, Text("Access Token", tok))
      [] r.tool \in {"find_user_by_name", "get_department_list"} ->
            Send(r, "department_list", Request("department/list", tok, 0, ""))
      [] r.tool = "get_department_users" ->
            Send(r, "department_users",
                 Request("user/simplelist", tok, r.arguments.department_id, ""))
      [] r.tool = "get_user_detail" ->
            Send(r, "user_detail", Request("user/get", tok, 0, r.arguments.userid))
      [] r.tool = "get_calendar_list" ->
            Send(r, "user_unionid",
                 Request("topapi/v2/user/get", tok, 0, r.arguments.userid))

\* get_access_token (lines 42-62), up to its request
GetAccessToken(r0) ==
    LET r == Enter(r0, access_token, token_expires) IN
    IF Cached(access_token, token_expires, now)
    THEN AfterToken([r EXCEPT !.hit = TRUE], access_token)
    ELSE IF ~CredentialsPresent
         THEN Except(r, MissingCredentials)
         ELSE Send(r, "gettoken", Request("gettoken", NoToken, 0, ""))

\* get_v2_access_token (lines 75-95), up to its request
GetV2AccessTokenOfLegacySlot(r0) ==
    LET r == Enter(r0, access_token, token_expires) IN
    IF Cached(access_token, token_expires, now)
    THEN AfterToken([r EXCEPT !.hit = TRUE], access_token)
    ELSE IF ~CredentialsPresent
         THEN Except(r, MissingCredentials)
         ELSE Send(r, "v2_gettoken", Request("oauth2/accessToken", NoToken, 0, ""))
GetV2AccessToken(r0) ==
    LET r == Enter(r0, v2_access_token, v2_token_expires) IN
    IF Cached(v2_access_token, v2_token_expires, now)
    THEN AfterToken([r EXCEPT !.hit = TRUE], v2_access_token)
    ELSE IF ~CredentialsPresent
         THEN Except(r, MissingCredentials)
         ELSE Send(r, "v2_gettoken", Request("oauth2/accessToken", NoToken, 0, ""))

\* the argument each branch reads first (in its logger.debug line)
RequiredKey(name) ==
    CASE name = "find_user_by_name"    -> "name"
      [] name = "get_department_users" -> "department_id"
      [] name = "get_user_detail"      -> "userid"
      [] name = "get_calendar_list"    -> "userid"
      [] OTHER                         -> "None"

\* the if/elif chain of call_tool (lines 334-431)
DispatchNoElse(r) ==
    IF r.name \notin ToolNames
    THEN GetAccessToken(r)
    ELSE IF RequiredKey(r.name) # "None" /\ ~HasKey(r.arguments, RequiredKey(r.name))
    THEN Except(r, KeyError(RequiredKey(r.name)))
    ELSE CASE r.name = "find_user_by_name" ->
                 GetAccessToken([r EXCEPT !.name = r.arguments.name])
           [] r.name = "get_calendar_list" -> GetV2AccessToken(r)
           [] OTHER -> GetAccessToken(r)
DispatchTokenFirst(r) ==
    IF r.name \notin ToolNames
    THEN Finish(r, Text("Unknown tool", r.name))
    ELSE IF RequiredKey(r.name) # "None" /\ ~HasKey(r.arguments, RequiredKey(r.name))
    THEN IF r.name = "get_calendar_list"
         THEN GetV2AccessToken(r) ELSE GetAccessToken(r)
    ELSE CASE r.name = "find_user_by_name" ->
                 GetAccessToken([r EXCEPT !.name = r.arguments.name])
           [] r.name = "get_calendar_list" -> GetV2AccessToken(r)
           [] OTHER -> GetAccessToken(r)
Dispatch(r) ==
    IF r.name \notin ToolNames
    THEN Finish(r, Text("Unknown tool", r.name))
    ELSE IF RequiredKey(r.name) # "None" /\ ~HasKey(r.arguments, RequiredKey(r.name))
    THEN Except(r, KeyError(RequiredKey(r.name)))
    ELSE CASE r.name = "find_user_by_name" ->
                 GetAccessToken([r EXCEPT !.name = r.arguments.name])
           [] r.name = "get_calendar_list" -> GetV2AccessToken(r)
           [] OTHER -> GetAccessToken(r)

----------------------------------------------------------------------------
(* The actions. *)

slots == <<access_token, token_expires, v2_access_token, v2_token_expires>>
world == <<environ, directory, calendar, utcoffset, now>>

\* ensure_session (lines 37-40); nothing in it suspends
EnsureSessionAlways ==
    session' = "ClientSession" /\ sessions' = sessions + 1
EnsureSession ==
    IF session = None
    THEN session' = "ClientSession" /\ sessions' = sessions + 1
    ELSE UNCHANGED <<session, sessions>>

Waiting == {"gettoken", "v2_gettoken", "department_list", "department_users",
            "user_detail", "user_unionid", "calendar_events"}

\* history: an invocation of p has ended in an error
Track(p) ==
    faults' = (faults \/ inv'[p].raised # None
                      \/ inv'[p].result.prefix = "Error calling tool")

LastCall(r) == r.calls[Len(r.calls)]

UnionId(userid) ==
    CASE userid = "u1" -> "union1" [] userid = "u2" -> "union2" [] OTHER -> "union3"

\* call_tool(name, arguments) runs up to its first request (lines 328-431)
call_tool_with(p, name, arguments) ==
    /\ inv[p].pc = "idle"
    /\ EnsureSession
    /\ inv' = [inv EXCEPT ![p] =
                  Dispatch([IdleInv EXCEPT !.tool = name, !.name = name,
                                           !.arguments = arguments])]
    /\ UNCHANGED <<slots, world>>
    /\ Track(p)

\* a client's request arrives
call_tool(p) ==
    \E name \in RequestNames : \E arguments \in ArgBags(name) :
       call_tool_with(p, name, arguments)

\* one of the requests `requests` (pairs of a name and a bag) arrives
call_tool_from(p, requests) ==
    \E request \in requests : call_tool_with(p, request[1], request[2])

\* the response of oapi.dingtalk.com/gettoken arrives (lines 64-73)
gettoken_response_torn(p) ==
    /\ inv[p].pc = "gettoken"
    /\ \E data \in GetTokenPayloads(inv[p].sent) :
          IF data.errcode = 0
          THEN /\ access_token' = data.access_token
               /\ inv' = [inv EXCEPT ![p] = AfterToken(inv[p], data.access_token)]
               /\ UNCHANGED <<token_expires, v2_access_token, v2_token_expires>>
          ELSE /\ inv' = [inv EXCEPT ![p] =
                    Except(inv[p], Exc("Exception", "Failed to get access token", data))]
               /\ UNCHANGED slots
    /\ UNCHANGED <<session, sessions, world>>
    /\ Track(p)
gettoken_response(p) ==
    /\ inv[p].pc = "gettoken"
    /\ \E data \in GetTokenPayloads(inv[p].sent) :
          IF data.errcode = 0
          THEN /\ access_token' = data.access_token
               /\ token_expires' = StoredExpiry(now, data.expires_in)
               /\ inv' = [inv EXCEPT ![p] = AfterToken(inv[p], data.access_token)]
               /\ UNCHANGED <<v2_access_token, v2_token_expires>>
          ELSE /\ inv' = [inv EXCEPT ![p] =
                    Except(inv[p], Exc("Exception", "Failed to get access token", data))]
               /\ UNCHANGED slots
    /\ UNCHANGED <<session, sessions, world>>
    /\ Track(p)

\* the response of api.dingtalk.com/v1.0/oauth2/accessToken arrives (lines 97-106)
v2_gettoken_response(p) ==
    /\ inv[p].pc = "v2_gettoken"
    /\ \E result \in V2TokenPayloads(inv[p].sent) :
          IF "accessToken" \in DOMAIN result
          THEN /\ v2_access_token' = result.accessToken
               /\ v2_token_expires' =
                     StoredExpiry(now, IF "expireIn" \in DOMAIN result
                                       THEN result.expireIn ELSE DefaultExpireIn)
               /\ inv' = [inv EXCEPT ![p] = AfterToken(inv[p], result.accessToken)]
               /\ UNCHANGED <<access_token, token_expires>>
          ELSE /\ inv' = [inv EXCEPT ![p] =
                    Except(inv[p], Exc("Exception", "Failed to get v2 access token", result))]
               /\ UNCHANGED slots
    /\ UNCHANGED <<session, sessions, world>>
    /\ Track(p)

\* get_department_list returns or raises (lines 113-118), and its caller goes on
department_list_response(p) ==
    /\ inv[p].pc = "department_list"
    /\ \E data \in DepartmentListPayloads :
          inv' = [inv EXCEPT ![p] =
             IF data.errcode # 0
             THEN Except(inv[p], Exc("Exception", "Failed to get department list", data))
             ELSE IF inv[p].tool = "get_department_list"
             THEN Finish(inv[p], Text("Department list", data.department))
             ELSE LoopDepartments([inv[p] EXCEPT !.departments = data.department,
                                                 !.di = 1])]
    /\ UNCHANGED <<slots, session, sessions, world>>
    /\ Track(p)

\* get_department_users returns or raises (lines 128-133)
department_users_response(p) ==
    /\ inv[p].pc = "department_users"
    /\ \E data \in DepartmentUsersPayloads(LastCall(inv[p]).department_id) :
          inv' = [inv EXCEPT ![p] =
             IF data.errcode # 0
             THEN Except(inv[p], Exc("Exception", "Failed to get department users", data))
             ELSE IF inv[p].tool = "get_department_users"
             THEN Finish(inv[p], Text("Department users", data.userlist))
             ELSE LoopUsers([inv[p] EXCEPT !.users = data.userlist, !.ui = 1])]
    /\ UNCHANGED <<slots, session, sessions, world>>
    /\ Track(p)

\* get_user_detail returns or raises (lines 143-148)
user_detail_response(p) ==
    /\ inv[p].pc = "user_detail"
    /\ \E data \in UserDetailPayloads(LastCall(inv[p]).userid) :
          inv' = [inv EXCEPT ![p] =
             IF data.errcode # 0
             THEN Except(inv[p], Exc("Exception", "Failed to get user detail", data))
             ELSE IF inv[p].tool = "get_user_detail"
             THEN Finish(inv[p], Text("User detail", data))
             ELSE LoopUsers([inv[p] EXCEPT !.found_users = Append(@, data),
                                           !.ui = @ + 1])]
    /\ UNCHANGED <<slots, session, sessions, world>>
    /\ Track(p)

\* get_user_unionid returns or raises (lines 163-168); get_calendar_list then
\* asks for the events (lines 176-200)
user_unionid_response(p) ==
    /\ inv[p].pc = "user_unionid"
    /\ \E result \in {[errcode |-> 0,
                       result |-> [unionid |-> UnionId(LastCall(inv[p]).userid)]],
                      Rejected} :
          inv' = [inv EXCEPT ![p] =
             IF result.errcode # 0
             THEN Except(inv[p], Exc("Exception", "Failed to get user unionid", result))
             ELSE Send([inv[p] EXCEPT
                          !.start_time = StartTime(inv[p].arguments, now),
                          !.end_time = EndTime(inv[p].arguments, now)],
                       "calendar_events",
                       Request("calendar/events", inv[p].token, 0,
                               result.result.unionid)
                       @@ [params |-> Params(inv[p].arguments, now)])]
    /\ UNCHANGED <<slots, session, sessions, world>>
    /\ Track(p)

\* the calendar's response arrives (lines 200-206, 400-427)
calendar_events_response(p) ==
    /\ inv[p].pc = "calendar_events"
    /\ \E result \in CalendarPayloads :
          inv' = [inv EXCEPT ![p] =
             IF "events" \notin DOMAIN result
             THEN Except(inv[p], Exc("Exception", "Failed to get calendar list", result))
             ELSE Finish(inv[p], Text("Calendar events", CalendarResponse(result)))]
    /\ UNCHANGED <<slots, session, sessions, world>>
    /\ Track(p)

\* the request in flight fails in the transport: aiohttp raises in the task
transport_failure(p) ==
    /\ inv[p].pc \in Waiting
    /\ inv' = [inv EXCEPT ![p] = Except(inv[p], ClientError)]
    /\ UNCHANGED <<slots, session, sessions, world>>
    /\ Track(p)

\* call_tool has returned its result (or raised): the task ends
return_result(p) ==
    /\ inv[p].pc = "done"
    /\ inv' = [inv EXCEPT ![p] = IdleInv]
    /\ UNCHANGED <<slots, session, sessions, world>>
    /\ Track(p)

\* time passes; a finished call_tool returns at once, before the clock moves
Tick ==
    /\ \A p \in Procs : inv[p].pc # "done"
    /\ now + 100 \in Times
    /\ now' = now + 100
    /\ UNCHANGED <<slots, session, sessions, environ, directory, calendar,
                   utcoffset, faults, inv>>

Invocation(p) ==
    \/ call_tool(p)
    \/ gettoken_response(p)
    \/ v2_gettoken_response(p)
    \/ department_list_response(p)
    \/ department_users_response(p)
    \/ user_detail_response(p)
    \/ user_unionid_response(p)
    \/ calendar_events_response(p)
    \/ transport_failure(p)
    \/ return_result(p)

\* DingdingMCPServer.__init__ (lines 26-35), in an environment with one of the
\* directories `dirs`
InitWith(dirs) ==
    /\ access_token = NoToken
    /\ token_expires = 0
    /\ v2_access_token = NoToken
    /\ v2_token_expires = 0
    /\ session = None
    /\ sessions = 0
    /\ environ \in [app_key : {None, "key"}, app_secret : {None, "secret"}]
    /\ directory \in dirs
    /\ now = 0
    /\ faults = FALSE
    /\ inv = [p \in Procs |-> IdleInv]

\* The server with its clock running, against the directories of at most one
\* department; the invocations arrive one after the other.
Init ==
    /\ InitWith({d \in Directories : WellFormed(d) /\ Len(d.department) <= 1})
    /\ calendar = NoEvents
    /\ utcoffset = 8
Next == Tick \/ Invocation(1)
Spec == Init /\ [][Next]_vars

\* the steps of the invocations of get_calendar_list
CalendarInvocation(p, requests) ==
    \/ call_tool_from(p, requests)
    \/ v2_gettoken_response(p)
    \/ user_unionid_response(p)
    \/ calendar_events_response(p)
    \/ transport_failure(p)
    \/ return_result(p)

NoDirectory == [department |-> <<>>, userlist |-> [d \in DeptIds |-> <<>>]]
\* the zones a host may be in: New York, Greenwich, Beijing
HostOffsets == {-5, 0, 8}

\* The queries of get_calendar_list: every bag of arguments, on hosts of
\* several zones, with the clock running.
InitWindow ==
    /\ InitWith({NoDirectory})
    /\ calendar \in {c \in Calendars : c.events = <<>>}
    /\ utcoffset \in HostOffsets
NextWindow ==
    Tick \/ CalendarInvocation(1, {<<"get_calendar_list", bag>> : bag \in CalendarArgBags})
SpecWindow == InitWindow /\ [][NextWindow]_vars

\* The results of get_calendar_list: every calendar, within one reading of the
\* clock.
InitEvents ==
    /\ InitWith({NoDirectory})
    /\ calendar \in Calendars
    /\ utcoffset = 8
NextEvents == CalendarInvocation(1, {<<"get_calendar_list", [userid |-> "u1"]>>})
SpecEvents == InitEvents /\ [][NextEvents]_vars

\* Two clients at once, with the clock running: both ask for the legacy token
\* or both ask for a calendar, so that their invocations meet at the slot of
\* one scope.
RaceRequests == {<<"get_access_token", NoArgs>>,
                 <<"get_calendar_list", [userid |-> "u1"]>>}
\* the requests p may send: those of the scope in use, if one is
RaceRequestsOf(p) ==
    {request \in RaceRequests :
        LET v2 == request[1] = "get_calendar_list" IN
        /\ (IF v2 THEN access_token ELSE v2_access_token) = NoToken
        /\ \A q \in Procs \ {p} :
              inv[q].pc = "idle" \/ (inv[q].tool = "get_calendar_list") = v2}
InitRace ==
    /\ InitWith({NoDirectory})
    /\ calendar = NoEvents
    /\ utcoffset = 8
NextRace ==
    \/ Tick
    \/ \E p \in Procs : CalendarInvocation(p, RaceRequestsOf(p)) \/ gettoken_response(p)
SpecRace == InitRace /\ [][NextRace]_vars

\* The server against every directory, within one reading of the clock.
InitDirectory ==
    /\ InitWith({d \in Directories : WellFormed(d)})
    /\ calendar = NoEvents
    /\ utcoffset = 8
NextDirectory == Invocation(1)
SpecDirectory == InitDirectory /\ [][NextDirectory]_vars

\* the request of p that is in flight is answered, or fails in the transport
Response(p) ==
    \/ gettoken_response(p)
    \/ v2_gettoken_response(p)
    \/ department_list_response(p)
    \/ department_users_response(p)
    \/ user_detail_response(p)
    \/ user_unionid_response(p)
    \/ calendar_events_response(p)
    \/ transport_failure(p)

\* The server against every directory, when no request stays unanswered for
\* ever.
FairDirectory == SpecDirectory /\ WF_vars(Response(1))

----------------------------------------------------------------------------
(* What the claims speak of. *)

V2Tools == {"get_calendar_list"}
TokenApis == {"gettoken", "oauth2/accessToken"}
\* the api of the token exchange of the scope a tool uses
TokenApi(tool) == IF tool \in V2Tools THEN "oauth2/accessToken" ELSE "gettoken"
\* how many requests of an invocation went to the apis in `apis`
Count(calls, apis) == Cardinality({i \in DOMAIN calls : calls[i].api \in apis})
IsError(r) == r.result.prefix = "Error calling tool"

----------------------------------------------------------------------------
\* C1: for each scope, a get_token that finds its slot filled and not yet
\* expired returns the stored token and sends no request at all at that point;
\* a get_token that finds its slot filled and expired sends exactly one
\* request of the token exchange of its scope.
C1_CachedUntilExpiry ==
    \A p \in Procs :
       LET r == inv[p] IN
       /\ r.entry = "valid" =>
             /\ r.hit
             /\ r.token = r.entry_token
             /\ Count(r.calls, TokenApis) = 0
       /\ r.entry = "expired" =>
             /\ ~r.hit
             /\ Count(r.calls, {TokenApi(r.tool)}) = 1
             /\ Count(r.calls, TokenApis) = 1
             /\ r.calls[1].api = TokenApi(r.tool)

\* a get_access_token invocation answered from the cache, after time has passed
C1_Witness ==
    /\ inv[1].pc = "done"
    /\ inv[1].tool = "get_access_token"
    /\ inv[1].entry = "valid"
    /\ inv[1].result = Text("Access Token", access_token)
    /\ inv[1].calls = <<>>
    /\ now > access_token.at

\* a v2 get_token at the stored expiry that has refreshed the slot
C1_WitnessRefresh ==
    /\ inv[1].pc = "done"
    /\ inv[1].tool = "get_calendar_list"
    /\ inv[1].entry = "expired"
    /\ inv[1].result.prefix = "Calendar events"

----------------------------------------------------------------------------
\* C2 as stated: whenever the cache treats a token as valid, less than the
\* token's lifetime has passed since the upstream issued it.
C2_NeverExpiredUpstream ==
    /\ Cached(access_token, token_expires, now) =>
          now - access_token.at < access_token.life
    /\ Cached(v2_access_token, v2_token_expires, now) =>
          now - v2_access_token.at < v2_access_token.life

\* the time at which a slot's expiry was computed, were it computed as
\* that time + lifetime - Margin
StoredAt(tok, expires) == expires - tok.life + Margin

\* C2 (amended): the stored expiry is the time the response was handled plus
\* the token's lifetime minus 200 seconds, a time between the token's issue
\* and now; so a token the cache treats as valid has not expired upstream
\* when its response took at most 200 seconds.
C2_ValidWithinMargin ==
    /\ Cached(access_token, token_expires, now) =>
          /\ access_token.at <= StoredAt(access_token, token_expires)
          /\ StoredAt(access_token, token_expires) <= now
          /\ StoredAt(access_token, token_expires) - access_token.at <= Margin
                => now - access_token.at < access_token.life
    /\ Cached(v2_access_token, v2_token_expires, now) =>
          /\ v2_access_token.at <= StoredAt(v2_access_token, v2_token_expires)
          /\ StoredAt(v2_access_token, v2_token_expires) <= now
          /\ StoredAt(v2_access_token, v2_token_expires) - v2_access_token.at <= Margin
                => now - v2_access_token.at < v2_access_token.life

\* a short-lived legacy token, stored after a delay and still valid later
C2_Witness ==
    /\ Cached(access_token, token_expires, now)
    /\ access_token.life = 300
    /\ access_token.at < StoredAt(access_token, token_expires)
    /\ inv[1].pc = "done"
    /\ inv[1].hit

----------------------------------------------------------------------------
ResultPrefixes ==
    {"Access Token", "Found users", "User not found", "Department list",
     "Department users", "User detail", "Calendar events", "Unknown tool",
     "Error calling tool"}

\* C3: no exception leaves call_tool, whatever the tool, the arguments and the
\* fault; a finished invocation holds a text result; and the session outlives
\* the faults, so that later invocations run as before.
C3_NothingEscapes ==
    \A p \in Procs :
       /\ inv[p].raised = None
       /\ inv[p].pc = "done" => inv[p].result.prefix \in ResultPrefixes
       /\ inv[p].pc # "done" => inv[p].result = NoResult
       /\ faults => session = "ClientSession"

\* an invocation that succeeds after an earlier one has ended in an error
C3_Witness ==
    /\ faults
    /\ inv[1].pc = "done"
    /\ inv[1].result.prefix = "Found users"

----------------------------------------------------------------------------
FailureMessages ==
    {"Failed to get access token", "Failed to get v2 access token",
     "Failed to get department list", "Failed to get department users",
     "Failed to get user detail", "Failed to get user unionid",
     "Failed to get calendar list"}

\* C4 as stated: an error result names the tool that was invoked, and carries
\* the upstream's payload when the upstream rejected a call.
C4_ErrorNamesTool ==
    \A p \in Procs :
       (inv[p].pc = "done" /\ IsError(inv[p])) =>
          /\ inv[p].result.name = inv[p].tool
          /\ inv[p].result.msg \in FailureMessages => inv[p].result.data # NoData

----------------------------------------------------------------------------
(* find_user_by_name against the directory. *)

Listed(dept) == \E i \in DOMAIN directory.department : directory.department[i] = dept
\* the users of the listed departments that bear `name`
MatchingUsers(name) ==
    {u \in UserIds :
        /\ UserName(u) = name
        /\ \E d \in DeptIds : Listed(d) /\
              \E j \in DOMAIN directory.userlist[d] : directory.userlist[d][j] = u}
\* the membership entries (department, place in its list) that bear `name`
MatchEntries(name) ==
    {e \in DeptIds \X (1..Cardinality(UserIds)) :
        /\ Listed(e[1])
        /\ e[2] \in DOMAIN directory.userlist[e[1]]
        /\ UserName(directory.userlist[e[1]][e[2]]) = name}
IsApi(api, c) == c.api = api
\* the departments whose members an invocation asked for, in the order asked
Visited(r) ==
    LET m == SelectSeq(r.calls, LAMBDA c : IsApi("user/simplelist", c))
    IN  [i \in DOMAIN m |-> m[i].department_id]
FindDone(r) ==
    r.pc = "done" /\ r.tool = "find_user_by_name" /\ HasKey(r.arguments, "name")

\* C5 as stated: find_user_by_name returns every user of the directory who
\* bears the name, each once, and total is the number of these users.
C5_AllDistinctMatches ==
    \A p \in Procs :
       (FindDone(inv[p]) /\ inv[p].result.prefix = "Found users") =>
          LET users == inv[p].result.body.users IN
          /\ {users[i].userid : i \in DOMAIN users}
                = MatchingUsers(inv[p].arguments.name)
          /\ inv[p].result.body.total
                = Cardinality(MatchingUsers(inv[p].arguments.name))

C7_NotFound ==
    \A p \in Procs :
       (FindDone(inv[p]) /\ MatchEntries(inv[p].arguments.name) = {}) =>
          \/ /\ inv[p].result = Text("User not found", inv[p].arguments.name)
             /\ Visited(inv[p]) = directory.department
             /\ Count(inv[p].calls, {"user/get"}) = 0
          \/ /\ IsError(inv[p])
             /\ inv[p].result.msg \in
                   FailureMessages \cup {ClientError.msg, MissingCredentials.msg}
             /\ inv[p].result.msg \in FailureMessages =>
                   inv[p].result.data = Rejected

\* nobody is named B in two departments that have members
C7_Witness ==
    /\ FindDone(inv[1])
    /\ inv[1].result = Text("User not found", "B")
    /\ Len(directory.department) = 2
    /\ \A d \in DeptIds : directory.userlist[d] # <<>>
    /\ Len(Visited(inv[1])) = 2

----------------------------------------------------------------------------
\* the step in which call_tool is entered by p
Entered(p) == inv[p].pc = "idle" /\ inv'[p].pc # "idle"

\* C8: a call_tool with a name that is none of the six tools returns
\* "Unknown tool: <name>" at once: nothing is raised, no request is sent and
\* the four fields of the two token slots stay as they are.
C8_UnknownTool ==
    [][\A p \in Procs :
         (Entered(p) /\ inv'[p].tool \notin ToolNames) =>
            /\ inv'[p].pc = "done"
            /\ inv'[p].result = Text("Unknown tool", inv'[p].tool)
            /\ inv'[p].raised = None
            /\ inv'[p].calls = <<>>
            /\ inv'[p].entry = "None"
            /\ UNCHANGED slots]_vars

\* "send_message" is answered so while the legacy slot holds a token
C8_Witness ==
    /\ inv[1].pc = "done"
    /\ inv[1].tool = "send_message"
    /\ inv[1].result = Text("Unknown tool", "send_message")
    /\ access_token # NoToken

\* the "required" lists of the tools' input schemas (lines 240, 269, 286, 321)
Required(tool) ==
    CASE tool = "find_user_by_name"    -> {"name"}
      [] tool = "get_department_users" -> {"department_id"}
      [] tool = "get_user_detail"      -> {"userid"}
      [] tool = "get_calendar_list"    -> {"userid"}
      [] OTHER                         -> {}

\* C9: a call_tool for a tool whose required argument is not in the bag
\* returns an error result that names the tool, at once: get_token is not
\* called, no request is sent and the token slots stay as they are.
C9_MissingArgument ==
    [][\A p \in Procs :
         (Entered(p) /\ ~(Required(inv'[p].tool) \subseteq DOMAIN inv'[p].arguments)) =>
            /\ inv'[p].pc = "done"
            /\ IsError(inv'[p])
            /\ inv'[p].result.name = inv'[p].tool
            /\ inv'[p].raised = None
            /\ inv'[p].calls = <<>>
            /\ inv'[p].entry = "None"
            /\ UNCHANGED slots]_vars

\* get_department_users without department_id, while the legacy slot is empty
C9_Witness ==
    /\ inv[1].pc = "done"
    /\ inv[1].tool = "get_department_users"
    /\ inv[1].arguments = NoArgs
    /\ IsError(inv[1])
    /\ inv[1].result.msg = "department_id"
    /\ access_token = NoToken
    /\ CredentialsPresent

\* C10: when a credential is absent from the environment, both slots stay
\* empty, and an invocation that has called get_token has ended at once in the
\* credential error: it has sent no request, of the exchange or otherwise.
C10_MissingCredentials ==
    (environ.app_key = None \/ environ.app_secret = None) =>
       /\ access_token = NoToken /\ token_expires = 0
       /\ v2_access_token = NoToken /\ v2_token_expires = 0
       /\ \A p \in Procs :
             inv[p].entry # "None" =>
                /\ inv[p].pc = "done"
                /\ inv[p].entry = "empty"
                /\ IsError(inv[p])
                /\ inv[p].result.msg = MissingCredentials.msg
                /\ inv[p].calls = <<>>
                /\ inv[p].raised = None

\* get_calendar_list with the key set and the secret absent
C10_Witness ==
    /\ environ.app_key # None
    /\ environ.app_secret = None
    /\ inv[1].pc = "done"
    /\ inv[1].tool = "get_calendar_list"
    /\ inv[1].entry = "empty"
    /\ inv[1].result.msg = MissingCredentials.msg

----------------------------------------------------------------------------
\* the exchange request of p is in flight
Exchanging(p) == inv[p].pc \in {"gettoken", "v2_gettoken"}
\* the slot of the scope a tool uses is filled and unexpired
SlotCached(tool) ==
    IF tool \in V2Tools
    THEN v2_access_token # NoToken /\ now < v2_token_expires
    ELSE access_token # NoToken /\ now < token_expires

\* C11: a token exchange goes on without an error only with a token the
\* response carried, now stored in the slot; one that the upstream answers
\* with a rejection (legacy: errcode not 0; v2: no accessToken) ends in an
\* error whose message carries the payload received, leaves the four slot
\* fields as they were, and leaves the slot of that scope uncached; and a
\* get_token that finds its slot uncached (with the credentials set) sends the
\* exchange request of its scope.
C11_RejectedExchange ==
    [][\A p \in Procs :
         /\ (Exchanging(p) /\ inv'[p].pc # inv[p].pc /\ ~IsError(inv'[p])) =>
               /\ inv'[p].token # NoToken
               /\ inv'[p].token =
                     (IF inv[p].pc = "gettoken" THEN access_token' ELSE v2_access_token')
         /\ (Exchanging(p) /\ IsError(inv'[p])
               /\ inv'[p].result.msg # ClientError.msg) =>
               /\ inv'[p].pc = "done"
               /\ inv'[p].raised = None
               /\ inv'[p].result.msg =
                     (IF inv[p].pc = "gettoken" THEN "Failed to get access token"
                                                ELSE "Failed to get v2 access token")
               /\ inv'[p].result.data =
                     (IF inv[p].pc = "gettoken" THEN Rejected ELSE RejectedV2)
               /\ UNCHANGED slots
               /\ ~SlotCached(inv[p].tool)'
         /\ (Entered(p) /\ inv'[p].entry \in {"empty", "expired"}
               /\ CredentialsPresent) =>
               /\ inv'[p].pc = (IF inv'[p].tool \in V2Tools THEN "v2_gettoken"
                                                            ELSE "gettoken")
               /\ Len(inv'[p].calls) = 1
               /\ inv'[p].calls[1].api = TokenApi(inv'[p].tool)]_vars

\* a rejected v2 exchange, found while the slot held an expired token
C11_Witness ==
    /\ inv[1].pc = "done"
    /\ inv[1].tool = "get_calendar_list"
    /\ inv[1].entry = "expired"
    /\ IsError(inv[1])
    /\ inv[1].result.msg = "Failed to get v2 access token"
    /\ inv[1].result.data = RejectedV2
    /\ v2_access_token # NoToken

----------------------------------------------------------------------------
\* the calendar-events request of an invocation has been sent
Queried(r) == r.calls # <<>> /\ LastCall(r).api = "calendar/events"
Supplied(r, key) == key \in DOMAIN r.arguments
SevenDays == 7 * 86400

\* C12: a get_calendar_list that is given neither start_time nor end_time
\* asks for the window from the time of the request to seven days later, both
\* taken in epoch milliseconds and rendered into timeMin and timeMax; and a
\* get_calendar_list that is given no max_results asks for 50 events.
C12_DefaultWindow ==
    \A p \in Procs :
       LET r == inv[p] IN
       Queried(r) =>
          /\ (~Supplied(r, "start_time") /\ ~Supplied(r, "end_time")) =>
                /\ r.start_time = r.sent * 1000
                /\ r.end_time = (r.sent + SevenDays) * 1000
                /\ LastCall(r).params.timeMin = Strftime(r.sent * 1000)
                /\ LastCall(r).params.timeMax = Strftime((r.sent + SevenDays) * 1000)
          /\ ~Supplied(r, "max_results") => LastCall(r).params.maxResults = 50

\* a query with the user id alone, sent when the clock has moved
C12_Witness ==
    /\ Queried(inv[1])
    /\ inv[1].arguments = [userid |-> "u1"]
    /\ inv[1].sent > 0
    /\ LastCall(inv[1]).params.maxResults = 50

----------------------------------------------------------------------------
\* C13: the window of a query is that of the bounds the caller supplied,
\* whatever non-negative integers they are (0 included), and a default stands
\* in for a bound only when the caller left that bound out.
C13_SuppliedWindow ==
    \A p \in Procs :
       LET r == inv[p] IN
       Queried(r) =>
          /\ r.start_time = IF Supplied(r, "start_time")
                            THEN r.arguments.start_time ELSE r.sent * 1000
          /\ r.end_time = IF Supplied(r, "end_time")
                          THEN r.arguments.end_time ELSE (r.sent + SevenDays) * 1000
          /\ LastCall(r).params.timeMin = Strftime(r.start_time)
          /\ LastCall(r).params.timeMax = Strftime(r.end_time)

----------------------------------------------------------------------------
\* C14 as stated: the result's next_token is the upstream's nextToken as it
\* came, and whatever next_token a caller supplies is the nextToken of the
\* query.
C14_EveryCursorVerbatim ==
    \A p \in Procs :
       LET r == inv[p] IN
       /\ (r.pc = "done" /\ r.result.prefix = "Calendar events") =>
             r.result.body.next_token = Get(calendar, "nextToken", None)
       /\ (Queried(r) /\ Supplied(r, "next_token")) =>
             /\ "nextToken" \in DOMAIN LastCall(r).params
             /\ LastCall(r).params.nextToken = r.arguments.next_token

\* C14: the result's next_token is the upstream's nextToken as it came (None
\* when there is none); a non-empty next_token supplied by the caller is the
\* nextToken of the query, and with an empty or absent next_token the query
\* has no nextToken.
C14_CursorRoundTrip ==
    \A p \in Procs :
       LET r == inv[p] IN
       /\ (r.pc = "done" /\ r.result.prefix = "Calendar events") =>
             r.result.body.next_token = Get(calendar, "nextToken", None)
       /\ Queried(r) =>
             IF Supplied(r, "next_token") /\ r.arguments.next_token # ""
             THEN /\ "nextToken" \in DOMAIN LastCall(r).params
                  /\ LastCall(r).params.nextToken = r.arguments.next_token
             ELSE "nextToken" \notin DOMAIN LastCall(r).params

\* the cursor of the upstream's answer comes back in a later query and the
\* answer to that query passes the upstream's cursor on
C14_Witness ==
    /\ inv[1].pc = "done"
    /\ inv[1].result.prefix = "Calendar events"
    /\ inv[1].result.body.next_token = "cursor2"
    /\ Supplied(inv[1], "next_token")
    /\ inv[1].arguments.next_token = inv[1].result.body.next_token
    /\ LastCall(inv[1]).params.nextToken = "cursor2"
    /\ inv[1].hit

----------------------------------------------------------------------------
\* the invocation has returned the calendar's events
Listing(r) == r.pc = "done" /\ r.result.prefix = "Calendar events"
\* an event that names no meeting room: no location, a location without
\* meetingRooms, or an empty list of them
NoRooms(event) ==
    \/ "location" \notin DOMAIN event
    \/ "meetingRooms" \notin DOMAIN event.location
    \/ event.location.meetingRooms = <<>>

\* C15: an invocation whose calendar-events call the upstream answers with
\* events ends in the list of the normalized events, and there the location of
\* every event that names no meeting room is the placeholder (a string, not
\* None); an invocation that has sent the call ends in an error only with the
\* transport's failure or the upstream's rejection.
C15_LocationPlaceholder ==
    \A p \in Procs :
       LET r == inv[p] IN
       (r.pc = "done" /\ Queried(r)) =>
          IF IsError(r)
          THEN \/ r.result.msg = ClientError.msg
               \/ r.result.msg = "Failed to get calendar list" /\ r.result.data = RejectedV2
          ELSE /\ Listing(r)
               /\ r.raised = None
               /\ Len(r.result.body.events) = Len(calendar.events)
               /\ \A j \in DOMAIN calendar.events :
                     /\ "location" \in DOMAIN r.result.body.events[j]
                     /\ NoRooms(calendar.events[j]) =>
                           /\ r.result.body.events[j].location = NoLocation
                           /\ r.result.body.events[j].location # None

\* an event whose location has an empty list of rooms
C15_Witness ==
    /\ Listing(inv[1])
    /\ Len(calendar.events) = 1
    /\ "location" \in DOMAIN calendar.events[1]
    /\ "meetingRooms" \in DOMAIN calendar.events[1].location
    /\ calendar.events[1].location.meetingRooms = <<>>
    /\ inv[1].result.body.events[1].location = NoLocation

----------------------------------------------------------------------------
NormalizedFields == {"summary", "start_time", "end_time", "location", "organizer",
                     "description", "status", "attendees", "online_meeting"}
TextFields == NormalizedFields \ {"attendees"}

\* C16: whatever fields an upstream event has, its normalized event has all
\* nine fields and none of them is None: a missing summary gives the
\* placeholder, and missing attendees give a list (the empty one).
C16_NoNullField ==
    \A p \in Procs :
       LET r == inv[p] IN
       Listing(r) =>
          \A j \in DOMAIN calendar.events :
             LET event == calendar.events[j]
                 formatted == r.result.body.events[j] IN
             /\ DOMAIN formatted = NormalizedFields
             /\ \A f \in TextFields : formatted[f] # None
             /\ "summary" \notin DOMAIN event => formatted.summary = NoTitle
             /\ Len(formatted.attendees) = Len(Get(event, "attendees", <<>>))

----------------------------------------------------------------------------
\* the seconds east of UTC that the suffix of a time string declares
SuffixSeconds(suffix) == IF suffix = "+08:00" THEN 8 * 3600 ELSE 0
\* the instant (in seconds since the epoch) that a time string denotes
Instant(iso) == iso.date * 86400 + iso.time - SuffixSeconds(iso.suffix)

\* C17: in whatever zone the host is, timeMin and timeMax denote the instants
\* of the query's start and end in epoch milliseconds, cut to whole seconds.
C17_SameInstant ==
    \A p \in Procs :
       LET r == inv[p] IN
       Queried(r) =>
          /\ Instant(LastCall(r).params.timeMin) = r.start_time \div 1000
          /\ Instant(LastCall(r).params.timeMax) = r.end_time \div 1000

----------------------------------------------------------------------------
\* call_tool has returned one result: a text, and no exception
Completed(r) == r.pc = "done" /\ r.result # NoResult /\ r.raised = None

\* C18: when no request stays unanswered for ever, an invocation that has
\* begun comes to its end with one result, a text of success or of error,
\* whatever the department list and the member lists are.
C18_Completes == (inv[1].pc # "idle") ~> Completed(inv[1])

\* find_user_by_name has gone through two departments with members and has
\* returned what it found
C18_Witness ==
    /\ Completed(inv[1])
    /\ inv[1].tool = "find_user_by_name"
    /\ inv[1].result.prefix = "Found users"
    /\ Len(directory.department) = MaxDepts
    /\ Count(inv[1].calls, {"user/simplelist"}) = MaxDepts

----------------------------------------------------------------------------
\* the requests of an invocation are in the order of its chain: the exchange
\* comes first and once, every other request carries the token of the
\* invocation, the calendar is asked right after the union id and for the
\* union id that lookup gave, and find_user_by_name asks for the members of
\* listed departments only, after it has the list
Ordered(r) ==
    \A i \in DOMAIN r.calls :
       LET call == r.calls[i] IN
       /\ call.api \in TokenApis => i = 1
       /\ call.api \notin TokenApis =>
             /\ r.token # NoToken
             /\ call.token = r.token
             /\ i = 1 => r.hit
       /\ call.api = "calendar/events" =>
             /\ i > 1
             /\ r.calls[i - 1].api = "topapi/v2/user/get"
             /\ r.calls[i - 1].userid = r.arguments.userid
             /\ call.userid = UnionId(r.arguments.userid)
       /\ (call.api = "user/simplelist" /\ r.tool = "find_user_by_name") =>
             /\ InList(directory.department, call.department_id)
             /\ \E j \in 1..(i - 1) : r.calls[j].api = "department/list"

\* C19: the requests of an invocation go out in the order of its chain, and
\* the step in which a request fails (rejected by the upstream or lost in the
\* transport) sends no request, ends the invocation in an error result that
\* carries none of the users found so far, and is followed only by the return
\* of call_tool.
C19_OrderedNoRetry ==
    [][\A p \in Procs :
         /\ Ordered(inv'[p])
         /\ (inv[p].pc \in Waiting /\ IsError(inv'[p])) =>
               /\ inv'[p].pc = "done"
               /\ inv'[p].calls = inv[p].calls
               /\ DOMAIN inv'[p].result = {"prefix", "name", "msg", "data"}
         /\ inv[p].pc = "done" => inv'[p] = IdleInv]_vars

\* find_user_by_name fails at a later request, after it has found a user
C19_Witness ==
    /\ inv[1].pc = "done"
    /\ inv[1].tool = "find_user_by_name"
    /\ IsError(inv[1])
    /\ inv[1].found_users # <<>>
    /\ Len(inv[1].calls) >= 4

----------------------------------------------------------------------------
\* the invocation has a token that its own exchange fetched
Fetched(r) == r.pc # "idle" /\ ~r.hit /\ r.token # NoToken
\* the tokens the upstream has issued for a scope up to time t
Issued(scope, t) ==
    {Token(scope, at, life) : at \in {x \in Times : x <= t}, life \in Lifetimes}
Scope(tool) == IF tool \in V2Tools THEN "v2" ELSE "legacy"
\* both invocations found the slot of one scope empty or expired, both
\* exchanged, and both have come to their end
BothFetched ==
    /\ \A p \in Procs : /\ inv[p].pc = "done"
                        /\ inv[p].entry \in {"empty", "expired"}
                        /\ Fetched(inv[p])
    /\ Scope(inv[1].tool) = Scope(inv[2].tool)

\* C20: with two invocations at once, a step that changes the value or the
\* expiry of a slot is the step of one invocation that handles its exchange
\* response, and it writes both: the token of that response and the expiry
\* counted from the lifetime of that response; every token an invocation
\* holds was issued by the upstream for its scope; and when two invocations
\* that both exchanged for one scope have both ended, the slot of that scope
\* holds the token of one of them.
C20_BenignRace ==
    [][/\ <<access_token, token_expires>>' # <<access_token, token_expires>> =>
             \E p \in Procs :
                /\ inv[p].pc = "gettoken" /\ Fetched(inv'[p])
                /\ access_token' = inv'[p].token
                /\ token_expires' = now + inv'[p].token.life - Margin
       /\ <<v2_access_token, v2_token_expires>>' # <<v2_access_token, v2_token_expires>> =>
             \E p \in Procs :
                /\ inv[p].pc = "v2_gettoken" /\ Fetched(inv'[p])
                /\ v2_access_token' = inv'[p].token
                /\ v2_token_expires' = now + inv'[p].token.life - Margin
       /\ \A p \in Procs :
             inv'[p].token # NoToken =>
                inv'[p].token \in Issued(Scope(inv'[p].tool), now')
       /\ BothFetched' =>
             (IF inv'[1].tool \in V2Tools THEN v2_access_token' ELSE access_token')
                \in {inv'[1].token, inv'[2].token}]_vars

\* both found the legacy slot expired, both exchanged, and the two tokens
\* differ
C20_Witness ==
    /\ BothFetched
    /\ inv[1].tool = "get_access_token"
    /\ inv[1].entry = "expired" /\ inv[2].entry = "expired"
    /\ inv[1].token # inv[2].token
    /\ access_token = inv[1].token

\* the same, at the v2 slot, found empty
C20_WitnessV2 ==
    /\ BothFetched
    /\ inv[1].tool = "get_calendar_list"
    /\ inv[1].entry = "empty" /\ inv[2].entry = "empty"
    /\ inv[1].token # inv[2].token
    /\ v2_access_token = inv[2].token

----------------------------------------------------------------------------
\* the session is there exactly when one has been created, and an invocation
\* that has begun (and so any request it has sent) finds it there
SessionShared ==
    /\ sessions \in {0, 1}
    /\ (session = None) = (sessions = 0)
    /\ \A p \in Procs :
          (inv[p].pc # "idle" \/ inv[p].calls # <<>>) => session # None

\* C21: however the invocations interleave, at most one session is ever
\* created; it is created in the step in which the first call_tool is entered
\* and not before; it stays from then on; and no invocation has begun, or has a
\* request out, while there is no session.
C21_OneLazySession ==
    [][/\ SessionShared
       /\ SessionShared'
       /\ sessions' # sessions =>
             /\ session = None /\ sessions = 0 /\ sessions' = 1
             /\ \A p \in Procs : inv[p] = IdleInv
             /\ \E p \in Procs : Entered(p)
       /\ session # None => UNCHANGED <<session, sessions>>]_vars

\* two invocations with requests out at once, on the one session
C21_Witness ==
    /\ sessions = 1
    /\ session = "ClientSession"
    /\ \A p \in Procs : inv[p].pc \in Waiting /\ inv[p].calls # <<>>

----------------------------------------------------------------------------
\* the tool of the invocation that takes the step
Stepping(p) == IF inv[p].pc = "idle" THEN inv'[p].tool ELSE inv[p].tool
\* the tokens an invocation holds or has sent
TokensOf(r) ==
    {r.token, r.entry_token} \cup {r.calls[i].token : i \in DOMAIN r.calls}

\* C22: a step of an invocation of get_calendar_list leaves the value and the
\* expiry of the legacy slot as they were, and a step of an invocation of any
\* other tool leaves those of the v2 slot as they were, whether the exchange
\* succeeds, fails or is spared by the cache; what get_token finds (empty,
\* valid, expired) and returns from the cache is what the slot of its own
\* scope holds, whatever the other slot holds; and every token an invocation
\* holds or sends is of the scope of its tool.
C22_SlotsIndependent ==
    [][\A p \in Procs :
         inv'[p] # inv[p] =>
            /\ IF Stepping(p) \in V2Tools
               THEN UNCHANGED <<access_token, token_expires>>
               ELSE UNCHANGED <<v2_access_token, v2_token_expires>>
            /\ (Entered(p) /\ inv'[p].entry # "None") =>
                  LET tok == IF Stepping(p) \in V2Tools
                             THEN v2_access_token ELSE access_token
                      expires == IF Stepping(p) \in V2Tools
                                 THEN v2_token_expires ELSE token_expires IN
                  /\ inv'[p].entry = (IF tok = NoToken THEN "empty"
                                      ELSE IF now < expires THEN "valid"
                                      ELSE "expired")
                  /\ inv'[p].hit = (inv'[p].entry = "valid")
                  /\ inv'[p].hit => inv'[p].token = tok
            /\ \A t \in TokensOf(inv'[p]) :
                  t = NoToken \/ t.scope = Scope(Stepping(p))]_vars

\* get_calendar_list has exchanged for the empty v2 slot while the legacy slot
\* holds a valid token
C22_Witness ==
    /\ inv[1].tool = "get_calendar_list"
    /\ inv[1].entry = "empty"
    /\ Fetched(inv[1])
    /\ v2_access_token = inv[1].token
    /\ access_token # NoToken
    /\ now < token_expires

\* a legacy tool is served the exchange while the v2 slot holds a valid token
C22_WitnessLegacy ==
    /\ inv[1].tool = "get_department_list"
    /\ inv[1].entry = "empty"
    /\ Fetched(inv[1])
    /\ v2_access_token # NoToken
    /\ now < v2_token_expires

----------------------------------------------------------------------------
\* the requests of an invocation other than the token exchange
Business(r) == {i \in DOMAIN r.calls : r.calls[i].api \notin TokenApis}

\* C23: an invocation sends at most one token exchange, and none when the
\* cache served its get_token; each of its other requests, however many there
\* are, carries the one token its get_token returned (the cached one or the
\* one its exchange fetched); and the two requests of get_calendar_list, the
\* union-id lookup and the calendar-events call, carry that token, of the v2
\* scope.
C23_OneTokenPerInvocation ==
    \A p \in Procs :
       LET r == inv[p] IN
       /\ Count(r.calls, TokenApis) <= 1
       /\ r.hit => Count(r.calls, TokenApis) = 0 /\ r.token = r.entry_token
       /\ (r.token # NoToken /\ ~r.hit) => Count(r.calls, TokenApis) = 1
       /\ Business(r) # {} => r.token # NoToken
       /\ \A i \in Business(r) : r.calls[i].token = r.token
       /\ r.tool \in V2Tools =>
             \A i \in Business(r) :
                /\ r.calls[i].api \in {"topapi/v2/user/get", "calendar/events"}
                /\ r.calls[i].token.scope = "v2"
       /\ (r.pc = "done" /\ r.result.prefix = "Access Token") => r.result.body = r.token

\* find_user_by_name has exchanged once and sent five requests or more with
\* the token it got
C23_Witness ==
    /\ inv[1].pc = "done"
    /\ inv[1].tool = "find_user_by_name"
    /\ ~inv[1].hit
    /\ Count(inv[1].calls, TokenApis) = 1
    /\ Cardinality(Business(inv[1])) >= 5

\* get_calendar_list has sent both its requests with the v2 token
C23_WitnessCalendar ==
    /\ inv[1].tool = "get_calendar_list"
    /\ Cardinality(Business(inv[1])) = 2
    /\ inv[1].token.scope = "v2"

====
